---- MODULE Spec2Model ----
(***************************************************************************)
(* A model of src/source-netmap.c: the netmap device registry              *)
(* (NetmapOpen / NetmapClose), the capture thread's init and deinit        *)
(* (ReceiveNetmapThreadInit / ReceiveNetmapThreadDeinit) and the packet     *)
(* release hook with its forwarding path (NetmapReleasePacket /             *)
(* NetmapWritePacket).                                                      *)
(***************************************************************************)
EXTENDS Integers, Sequences, FiniteSets, TLC

(***************************************************************************)
(* Bounds of the model.                                                    *)
(***************************************************************************)
\* Number of distinct addresses SCMalloc can return for a NetmapDevice.
MaxAddr == 2
\* Number of capture threads.
NumThreads == 2
\* Number of ReceiveNetmapThreadInit calls in one run.
MaxInits == 3
\* Hardware ring pairs of the two interfaces (what NIOCGINFO reports).
Eth0Rings == 3
Eth1Rings == 2
\* Slots of one netmap ring (num_slots).
NumSlots == 3
\* Packet descriptors the packet pool can hand out.
MaxPkts == 2
\* Frames the kernel receives in one run.
MaxFrames == 2
\* Packets the threads of an interface read in one run (livedev->pkts).
MaxRead == 3

(***************************************************************************)
(* Values.                                                                 *)
(***************************************************************************)
NULL == 0
NoThread == 0
Addr == 1..MaxAddr
Threads == 1..NumThreads
Pkts == 1..MaxPkts
Names == {"eth0", "eth1"}

\* NETMAP_COPY_MODE_* of the thread configuration (aconf->copy_mode).
CopyModes == {"NONE", "TAP", "IPS"}

\* The ring count NIOCGINFO reports for an interface (nr_rx_rings).
HwRings(n) == IF n = "eth0" THEN Eth0Rings ELSE Eth1Rings

\* The peer interface (aconf->out_iface of the configuration of n).
OutIface(n) == IF n = "eth0" THEN "eth1" ELSE "eth0"

(***************************************************************************)
(* unsigned int arithmetic.  A 32-bit pattern is kept as the integer that  *)
(* two's complement reads from it, so UINT_MAX is -1 and 0x80000000 is     *)
(* INT_MIN: increment, decrement and the test against zero, which is all   *)
(* the code does with NetmapDevice.ref, are the same under both readings.  *)
(***************************************************************************)
Int32Max == 2147483647
Int32Min == -2147483647 - 1

U32Inc(v) == IF v = Int32Max THEN Int32Min ELSE v + 1

U32Dec(v) == IF v = Int32Min THEN Int32Max ELSE v - 1

(***************************************************************************)
(* State.                                                                  *)
(***************************************************************************)
VARIABLES
    heap,                 \* the NetmapDevice object at each heap address
    netmap_devlist,       \* the TAILQ of opened devices: addresses, in order
    netmap_devlist_lock,  \* the thread holding the registry mutex, or NoThread
    open_fds,             \* ring descriptors of /dev/netmap open in the process
    mmaps,                \* netmap memory regions mapped in the process
    aconf,                \* the NetmapIfaceConfig of each interface
    pc,                   \* where each thread is
    ntv,                  \* each thread's NetmapThreadVars
    ninit,                \* ThreadInit calls made so far
    held,                 \* per interface: acquires less releases of its latest Device
    rings,                \* pdev->rings of the Device at each address: rx, tx, tx_lock
    pkt,                  \* the packet descriptors of the packet pool
    rd,                   \* each thread's locals inside NetmapRingRead
    rel,                  \* each thread's locals inside NetmapReleasePacket
    nframes,              \* frames the kernel has received so far
    handed,               \* per RX ring: the frame last handed downstream
    suricata_ctl_flags,   \* the engine's control flags: not 0 once it is stopping
    livedev               \* per interface: the LiveDevice's shared drop counter

regvars == <<heap, netmap_devlist, netmap_devlist_lock, open_fds, mmaps,
             aconf, pc, ntv, ninit, held>>

fwdvars == <<rings, pkt, rd, rel, nframes, handed, suricata_ctl_flags, livedev>>

vars == <<heap, netmap_devlist, netmap_devlist_lock, open_fds, mmaps,
          aconf, pc, ntv, ninit, held, rings, pkt, rd, rel, nframes, handed,
          suricata_ctl_flags,
          livedev>>

\* memset(pdev, 0, sizeof(*pdev)); also stands for a freed object.
ZeroDev ==
    [alloc |-> FALSE, ifname |-> "", mem |-> FALSE, rings_cnt |-> 0,
     ref |-> 0, threads_run |-> 0]

\* memset(ntv, 0, sizeof(*ntv)).  src_gone and dst_gone are history: the
\* Device the handle was obtained for has been destroyed since.
ZeroNtv ==
    [ifsrc |-> NULL, ifdst |-> NULL, ring_from |-> 0, ring_to |-> 0,
     thread_idx |-> 0, flags |-> {}, bpf_prog |-> FALSE,
     copy_mode |-> "NONE", pkts |-> 0, drops |-> 0, iface |-> "",
     src_gone |-> FALSE, dst_gone |-> FALSE]

Range(s) == {s[i] : i \in 1..Len(s)}

\* TAILQ_FOREACH ... strcmp(ifname, pdev->ifname) == 0: the first match.
DevByName(n) ==
    LET hits == {i \in 1..Len(netmap_devlist) : heap[netmap_devlist[i]].ifname = n}
    IN IF hits = {} THEN NULL
       ELSE netmap_devlist[CHOOSE i \in hits : \A j \in hits : i <= j]

\* TAILQ_REMOVE.
ListRemove(s, a) == SelectSeq(s, LAMBDA x : x # a)

(***************************************************************************)
(* The registry mutex.                                                     *)
(***************************************************************************)
\* A mutex that keeps nobody out.
MutexLockBroken(owner) == TRUE

\* SCMutexLock returns once no thread holds the mutex.
MutexLockEnabled(owner) == owner = NoThread

\* A return path without SCMutexUnlock.
MutexStaysLocked(t) == t

\* SCMutexUnlock: the mutex has no holder.
MutexUnlock(t) == NoThread

(***************************************************************************)
(* Reads through a NetmapDevice pointer.  A pointer to a freed object whose *)
(* address malloc has not handed out again reads whatever the allocator    *)
(* left there; one that has been handed out again reads the new object.    *)
(***************************************************************************)
DevRingsCnt(a) == IF heap[a].alloc THEN {heap[a].rings_cnt} ELSE {0, Eth0Rings}

DevThreadsRun(a) == IF heap[a].alloc THEN {heap[a].threads_run} ELSE {0, MaxInits}

(***************************************************************************)
(* NetmapOpen: the construction of a new NetmapDevice.                     *)
(***************************************************************************)
\* How one construction goes: which call fails, and for a per-ring call at
\* which ring.  "malloc" leaves by label error, "open_ctl" by error_pdev,
\* "early" (control socket, interface flags, interface down, NIOCGINFO,
\* unequal ring counts, the rings allocation) by error_fd.
CreateOutcomes(rc) ==
    {[kind |-> k, ring |-> 0] : k \in {"ok", "malloc", "open_ctl", "early", "mmap"}}
    \cup {[kind |-> k, ring |-> i] : k \in {"open", "regif"}, i \in 0..(rc - 1)}

\* for (int i = 0; i < pdev->rings_cnt; i++): fds counts the ring descriptors
\* opened, success_cnt the rings fully set up.
RECURSIVE RingLoop(_, _, _, _)
RingLoop(i, rc, o, st) ==
    IF i >= rc THEN st
    ELSE IF o.kind = "open" /\ o.ring = i THEN st
    ELSE LET opened == [st EXCEPT !.fds = @ + 1]
         IN IF o.kind = "regif" /\ o.ring = i THEN opened
            ELSE IF opened.mem = "NULL" /\ o.kind = "mmap"
                 THEN [opened EXCEPT !.mem = "MAP_FAILED", !.exit = "error_fd"]
            ELSE RingLoop(i + 1, rc, o,
                          [opened EXCEPT !.mem = "MAPPED", !.success_cnt = @ + 1])

\* What a construction leaves behind: the return value, the ring descriptors
\* still open and the regions still mapped when NetmapOpen returns.
CreateResult(rc, o) ==
    IF o.kind \in {"malloc", "open_ctl", "early"}
    THEN [ret |-> -1, fds |-> 0, maps |-> 0]
    ELSE LET st == RingLoop(0, rc, o,
                     [fds |-> 0, success_cnt |-> 0, mem |-> "NULL", exit |-> "loop"])
         IN IF st.exit = "error_fd"
            THEN [ret |-> -1, fds |-> st.fds, maps |-> 0]
            ELSE IF st.success_cnt # rc
            THEN \* close(rings[0..success_cnt-1].fd); munmap(pdev->mem)
                 [ret |-> -1, fds |-> st.fds - st.success_cnt, maps |-> 0]
            ELSE [ret |-> 0, fds |-> st.fds,
                  maps |-> IF st.mem = "MAPPED" THEN 1 ELSE 0]

(***************************************************************************)
(* ReceiveNetmapThreadInit: the ring range of a thread slot.               *)
(***************************************************************************)
\* int tmp = rings_cnt / threads; ring_from = thread_idx * tmp.
RingFrom(idx, rc, threads) == idx * (rc \div threads)

\* ring_to = ring_from + tmp - 1, cut to rings_cnt - 1.
RingTo(idx, rc, threads) ==
    LET to == RingFrom(idx, rc, threads) + (rc \div threads) - 1
    IN IF to >= rc THEN rc - 1 ELSE to

(***************************************************************************)
(* Where a thread goes when a NetmapOpen or NetmapClose call returns.      *)
(***************************************************************************)
IsSrcOpen(t) == pc[t] \in {"src_open", "src_create"}

\* The interface name the thread's pending NetmapOpen was called with.
OpenName(t) == IF IsSrcOpen(t) THEN ntv[t].iface ELSE OutIface(ntv[t].iface)

\* The pointer the thread's pending NetmapClose is called with: ntv->ifsrc
\* on the error path of the init and first in the deinit, then ntv->ifdst.
CloseArg(t) == IF pc[t] = "ddst_close" THEN ntv[t].ifdst ELSE ntv[t].ifsrc

\* Whether the Device that pointer was obtained for has been destroyed.
CloseArgGone(t) == IF pc[t] = "ddst_close" THEN ntv[t].dst_gone ELSE ntv[t].src_gone

\* History: every handle to the Device at address a is now a dangling one.
MarkGone(v, a) ==
    [v EXCEPT !.src_gone = @ \/ (v.ifsrc = a), !.dst_gone = @ \/ (v.ifdst = a)]

\* ReceiveNetmapThreadInit after NetmapOpen(aconf->iface, ...) returned r
\* with *pdevice = dev, or after NetmapOpen(aconf->out_iface, ...) did.
AfterOpen(t, r, dev) ==
    IF IsSrcOpen(t)
    THEN IF r = 0
         THEN /\ ntv' = [ntv EXCEPT ![t].ifsrc = dev, ![t].src_gone = FALSE]
              /\ pc' = [pc EXCEPT ![t] = "check"]
         ELSE \* goto error_ntv
              /\ ntv' = [ntv EXCEPT ![t] = ZeroNtv]
              /\ pc' = [pc EXCEPT ![t] = "idle"]
    ELSE IF r = 0
         THEN /\ ntv' = [ntv EXCEPT ![t].ifdst = dev, ![t].dst_gone = FALSE]
              /\ pc' = [pc EXCEPT ![t] = "finish"]
         ELSE \* goto error_src
              /\ ntv' = ntv
              /\ pc' = [pc EXCEPT ![t] = "err_close"]

(***************************************************************************)
(* NetmapOpen.                                                             *)
(***************************************************************************)
\* SCMutexLock and the search of the list.  A Device of that name is
\* shared: pdev->ref++, unlock, return 0.  With none the thread goes on,
\* holding the mutex, to build one.
NetmapOpenSearch(t) ==
    /\ pc[t] \in {"src_open", "dst_open"}
    /\ MutexLockEnabled(netmap_devlist_lock)
    /\ LET pdev == DevByName(OpenName(t))
       IN IF pdev # NULL
          THEN /\ heap' = [heap EXCEPT ![pdev].ref = U32Inc(@)]
               /\ held' = [held EXCEPT ![OpenName(t)] = @ + 1]
               /\ netmap_devlist_lock' = MutexUnlock(t)
               /\ AfterOpen(t, 0, pdev)
          ELSE /\ netmap_devlist_lock' = t
               /\ pc' = [pc EXCEPT ![t] = IF IsSrcOpen(t) THEN "src_create"
                                                           ELSE "dst_create"]
               /\ UNCHANGED <<heap, held, ntv>>
    /\ UNCHANGED <<netmap_devlist, open_fds, mmaps, aconf, ninit>>

\* Not found: a new record is built, from SCMalloc to TAILQ_INSERT_TAIL or
\* to one of the error labels, and the mutex unlocked.
NetmapOpenCreateWith(t, o) ==
    /\ pc[t] \in {"src_create", "dst_create"}
    /\ LET name == OpenName(t)
           rc == HwRings(name)
           free == {a \in Addr : ~heap[a].alloc}
           r == CreateResult(rc, o)
       IN /\ open_fds' = open_fds + r.fds
          /\ mmaps' = mmaps + r.maps
          /\ netmap_devlist_lock' = MutexUnlock(t)
          /\ IF r.ret = 0
             THEN \E a \in free :
                    /\ heap' = [heap EXCEPT ![a] =
                           [alloc |-> TRUE, ifname |-> name, mem |-> TRUE,
                            rings_cnt |-> rc, ref |-> 0, threads_run |-> 0]]
                    /\ netmap_devlist' = Append(netmap_devlist, a)
                    /\ held' = [held EXCEPT ![name] = 1]
                    /\ AfterOpen(t, 0, a)
             ELSE /\ o.kind = "malloc" \/ free # {}
                  /\ UNCHANGED <<heap, netmap_devlist, held>>
                  /\ AfterOpen(t, r.ret, NULL)
    /\ UNCHANGED <<aconf, ninit>>

NetmapOpenCreate(t) == \E o \in CreateOutcomes(HwRings(OpenName(t))) : NetmapOpenCreateWith(t, o)

(***************************************************************************)
(* NetmapClose.                                                            *)
(***************************************************************************)
\* What NetmapClose(dev) returns: 0 when dev is in the list, else -1.
NetmapCloseRet(dev) == IF dev \in Range(netmap_devlist) THEN 0 ELSE -1

\* The caller of NetmapClose after it returned: the error path of the init
\* frees ntv, the deinit clears the pointer and goes on to ifdst.
AfterClose(t, v) ==
    IF pc[t] = "running" /\ v[t].ifdst # NULL
    THEN /\ ntv' = [v EXCEPT ![t].ifsrc = NULL, ![t].src_gone = FALSE]
         /\ pc' = [pc EXCEPT ![t] = "ddst_close"]
    ELSE /\ ntv' = [v EXCEPT ![t] = ZeroNtv]
         /\ pc' = [pc EXCEPT ![t] = "idle"]

\* SCMutexLock, the search for dev in the list, pdev->ref--, the teardown
\* at zero, SCMutexUnlock.  A thread that is running calls it from
\* ReceiveNetmapThreadDeinit.
NetmapClose(t) ==
    /\ pc[t] \in {"err_close", "running", "ddst_close"}
    /\ MutexLockEnabled(netmap_devlist_lock)
    /\ LET dev == CloseArg(t)
       IN IF NetmapCloseRet(dev) = 0
          THEN LET r == U32Dec(heap[dev].ref)
               IN /\ held' = IF CloseArgGone(t) THEN held
                             ELSE [held EXCEPT ![heap[dev].ifname] = @ - 1]
                  /\ IF r = 0
                     THEN /\ mmaps' = mmaps - (IF heap[dev].mem THEN 1 ELSE 0)
                          /\ open_fds' = open_fds - heap[dev].rings_cnt
                          /\ netmap_devlist' = ListRemove(netmap_devlist, dev)
                          /\ heap' = [heap EXCEPT ![dev] = ZeroDev]
                          /\ AfterClose(t, [u \in Threads |-> MarkGone(ntv[u], dev)])
                     ELSE /\ heap' = [heap EXCEPT ![dev].ref = r]
                          /\ UNCHANGED <<mmaps, open_fds, netmap_devlist>>
                          /\ AfterClose(t, ntv)
          ELSE /\ UNCHANGED <<heap, held, mmaps, open_fds, netmap_devlist>>
               /\ AfterClose(t, ntv)
    /\ netmap_devlist_lock' = MutexUnlock(t)
    /\ UNCHANGED <<aconf, ninit>>

(***************************************************************************)
(* ReceiveNetmapThreadInit.                                                *)
(***************************************************************************)
\* The init up to its first NetmapOpen: ntv is allocated and zeroed and the
\* configuration copied in.
ThreadInitStart(t) ==
    /\ pc[t] = "idle"
    /\ ninit < MaxInits
    /\ \E n \in Names :
         ntv' = [ntv EXCEPT ![t] = [ZeroNtv EXCEPT !.iface = n,
                                                   !.copy_mode = aconf[n].copy_mode]]
    /\ pc' = [pc EXCEPT ![t] = "src_open"]
    /\ ninit' = ninit + 1
    /\ UNCHANGED <<heap, netmap_devlist, netmap_devlist_lock, open_fds, mmaps,
                   aconf, held>>

\* initdata == NULL, SCMalloc(sizeof(*ntv)) == NULL or no live device: the
\* init fails before it calls NetmapOpen.
ThreadInitFailEarly(t) ==
    /\ pc[t] = "idle"
    /\ ninit < MaxInits
    /\ ninit' = ninit + 1
    /\ UNCHANGED <<heap, netmap_devlist, netmap_devlist_lock, open_fds, mmaps,
                   aconf, pc, ntv, held>>

\* A test that lets one thread more than there are rings through.
TooManyThreadsOffByOne(threads, rc) == threads > rc + 1

\* aconf->threads > ntv->ifsrc->rings_cnt
TooManyThreads(threads, rc) == threads > rc

\* if (aconf->threads > ntv->ifsrc->rings_cnt) goto error_src
ThreadInitCheck(t) ==
    /\ pc[t] = "check"
    /\ \E rc \in DevRingsCnt(ntv[t].ifsrc) :
         pc' = [pc EXCEPT ![t] = IF TooManyThreads(aconf[ntv[t].iface].threads, rc)
                                 THEN "err_close" ELSE "cas_get"]
    /\ UNCHANGED <<heap, netmap_devlist, netmap_devlist_lock, open_fds, mmaps,
                   aconf, ntv, ninit, held>>

\* ntv->thread_idx = SC_ATOMIC_GET(ntv->ifsrc->threads_run)
ThreadInitCasGet(t) ==
    /\ pc[t] = "cas_get"
    /\ \E v \in DevThreadsRun(ntv[t].ifsrc) :
         ntv' = [ntv EXCEPT ![t].thread_idx = v]
    /\ pc' = [pc EXCEPT ![t] = "cas_cas"]
    /\ UNCHANGED <<heap, netmap_devlist, netmap_devlist_lock, open_fds, mmaps,
                   aconf, ninit, held>>

\* SC_ATOMIC_CAS(&threads_run, thread_idx, thread_idx + 1): whether the
\* counter still holds the value read.
CasSucceeds(cur, expected) == cur = expected

\* The compare-and-swap and, once it succeeded, the ring borders.
ThreadInitCasCas(t) ==
    /\ pc[t] = "cas_cas"
    /\ LET dev == ntv[t].ifsrc
           idx == ntv[t].thread_idx
           threads == aconf[ntv[t].iface].threads
       IN \E cur \in DevThreadsRun(dev) :
            IF CasSucceeds(cur, idx)
            THEN /\ heap' = IF heap[dev].alloc
                            THEN [heap EXCEPT ![dev].threads_run = idx + 1]
                            ELSE heap
                 /\ \E rc \in DevRingsCnt(dev) :
                      ntv' = [ntv EXCEPT ![t].ring_from = RingFrom(idx, rc, threads),
                                         ![t].ring_to = RingTo(idx, rc, threads)]
                 /\ pc' = [pc EXCEPT ![t] = IF ntv[t].copy_mode # "NONE"
                                            THEN "dst_open" ELSE "finish"]
            ELSE /\ pc' = [pc EXCEPT ![t] = "cas_get"]
                 /\ UNCHANGED <<heap, ntv>>
    /\ UNCHANGED <<netmap_devlist, netmap_devlist_lock, open_fds, mmaps,
                   aconf, ninit, held>>

\* if (active_runmode && !strcmp("workers", active_runmode))
\*     ntv->flags |= NETMAP_FLAG_ZERO_COPY
RunmodeFlags(runmode) == IF runmode = "workers" THEN {"NETMAP_FLAG_ZERO_COPY"} ELSE {}

\* The rest of the init: the counters, the zero copy flag and the BPF
\* filter, whose compilation can fail (goto error_src).
ThreadInitFinish(t) ==
    /\ pc[t] = "finish"
    /\ LET c == aconf[ntv[t].iface]
       IN \/ /\ pc' = [pc EXCEPT ![t] = "running"]
             /\ ntv' = [ntv EXCEPT ![t].flags = RunmodeFlags(c.runmode),
                                   ![t].bpf_prog = c.bpf_filter]
          \/ /\ c.bpf_filter
             /\ pc' = [pc EXCEPT ![t] = "err_close"]
             /\ ntv' = [ntv EXCEPT ![t].flags = RunmodeFlags(c.runmode)]
    /\ UNCHANGED <<heap, netmap_devlist, netmap_devlist_lock, open_fds, mmaps,
                   aconf, ninit, held>>

(***************************************************************************)
(* The registry and the threads' init and deinit.                          *)
(***************************************************************************)
\* The configurations the interfaces are run with.  The init only asks
\* whether copy_mode is NONE, so TAP is left to the forwarding path below.
Confs ==
    {[threads |-> 2, copy_mode |-> "NONE", bpf_filter |-> FALSE, runmode |-> "workers"],
     [threads |-> 2, copy_mode |-> "IPS", bpf_filter |-> TRUE, runmode |-> "workers"],
     [threads |-> 3, copy_mode |-> "NONE", bpf_filter |-> TRUE, runmode |-> "autofp"],
     [threads |-> 3, copy_mode |-> "IPS", bpf_filter |-> FALSE, runmode |-> "workers"]}

\* A packet descriptor in the pool.
ZeroPkt == [state |-> "pool", hook |-> FALSE, ntv |-> NoThread, ring_id |-> 0, slot_id |-> 0]

\* What a thread keeps during one iteration of its loop: the ring being
\* read with avail and cur, and the revents of poll(); as here, with all of
\* it unset, for a thread that is in neither function.
NoRd == [ring_id |-> 0, avail |-> 0, cur |-> 0, pollin |-> {}, pollerr |-> {}]

NoRel == [p |-> 0, ret |-> ""]

\* The registry specification leaves the contents of the rings out.
FwdIdle ==
    /\ rings = [a \in Addr |-> <<>>]
    /\ pkt = [p \in Pkts |-> ZeroPkt]
    /\ rd = [t \in Threads |-> NoRd]
    /\ rel = [t \in Threads |-> NoRel]
    /\ nframes = 0
    /\ handed = [a \in Addr |-> <<>>]
    /\ suricata_ctl_flags = 0
    /\ livedev = [n \in Names |-> [pkts |-> 0, drop |-> 0]]

Init ==
    /\ heap = [a \in Addr |-> ZeroDev]
    /\ netmap_devlist = <<>>
    /\ netmap_devlist_lock = NoThread
    /\ open_fds = 0
    /\ mmaps = 0
    /\ \E c \in Confs : aconf = [n \in Names |-> c]
    /\ pc = [t \in Threads |-> "idle"]
    /\ ntv = [t \in Threads |-> ZeroNtv]
    /\ ninit = 0
    /\ held = [n \in Names |-> 0]
    /\ FwdIdle

Next ==
    \E t \in Threads :
        /\ UNCHANGED fwdvars
        /\ \/ ThreadInitStart(t)
           \/ ThreadInitFailEarly(t)
           \/ NetmapOpenSearch(t)
           \/ NetmapOpenCreate(t)
           \/ ThreadInitCheck(t)
           \/ ThreadInitCasGet(t)
           \/ ThreadInitCasCas(t)
           \/ ThreadInitFinish(t)
           \/ NetmapClose(t)

Spec == Init /\ [][Next]_vars

(***************************************************************************)
(* netmap rings, as the code uses them through net/netmap_user.h.          *)
(***************************************************************************)
\* nm_ring_next(ring, i): the slot after slot i.
nm_ring_next(i) == IF i + 1 = NumSlots THEN 0 ELSE i + 1

\* The slot before slot i: where NIOCTXSYNC leaves tail once the kernel has
\* sent every slot before head.
nm_ring_prev(i) == IF i = 0 THEN NumSlots - 1 ELSE i - 1

\* A count that takes a ring with tail equal to cur for one with every slot
\* free.
nm_ring_space_wrong(ring) ==
    LET ret == ring.tail - ring.cur
    IN IF ret <= 0 THEN ret + NumSlots ELSE ret

\* nm_ring_space(ring): the slots from cur up to tail.
nm_ring_space(ring) ==
    LET ret == ring.tail - ring.cur
    IN IF ret < 0 THEN ret + NumSlots ELSE ret

\* The buffer the kernel gave slot s of ring i of the device at a (tx = 1
\* for its TX ring): every slot of the mapped region has a buffer of its own.
BufIdx(a, i, tx, s) == ((a * (Eth0Rings + Eth1Rings) + i) * 2 + tx) * NumSlots + s

\* pdev->rings[i] after NetmapOpen: NETMAP_RXRING, NETMAP_TXRING and
\* SCSpinInit(&pring->tx_lock).  An RX ring starts empty, a TX ring with
\* every slot but one free.
NewRing(a, i) ==
    [rx |-> [head |-> 0, cur |-> 0, tail |-> 0,
             slot |-> [s \in 0..(NumSlots - 1) |->
                         [buf_idx |-> BufIdx(a, i, 0, s), len |-> 0, flags |-> {}]]],
     tx |-> [head |-> 0, cur |-> 0, tail |-> NumSlots - 1,
             slot |-> [s \in 0..(NumSlots - 1) |->
                         [buf_idx |-> BufIdx(a, i, 1, s), len |-> 0, flags |-> {}]]],
     tx_lock |-> NoThread]

DevRings(a, rc) == [i \in 0..(rc - 1) |-> NewRing(a, i)]

\* A lock that any thread can take whoever holds it.
SCSpinLockBroken(owner) == TRUE

\* SCSpinLock returns once no thread holds the lock; SCSpinTrylock returns 0
\* in that case and fails otherwise.
SCSpinLockEnabled(owner) == owner = NoThread

\* SCSpinUnlock: the lock has no holder.
SCSpinUnlock(t) == NoThread

(***************************************************************************)
(* NetmapReleasePacket and NetmapWritePacket.                              *)
(***************************************************************************)
\* A test that lets pseudo packets through to the transmit ring.
ForwardsPseudoPacket(copy_mode, pseudo, drop) ==
    /\ copy_mode # "NONE"
    /\ ~(copy_mode = "IPS" /\ drop)

\* Whether the release goes on to the transmit ring:
\*   (ntv->copy_mode != NETMAP_COPY_MODE_NONE) && !PKT_IS_PSEUDOPKT(p)
\* in NetmapReleasePacket, and in NetmapWritePacket not
\*   copy_mode == NETMAP_COPY_MODE_IPS && PACKET_TEST_ACTION(p, ACTION_DROP).
ForwardsPacket(copy_mode, pseudo, drop) ==
    /\ copy_mode # "NONE"
    /\ ~pseudo
    /\ ~(copy_mode = "IPS" /\ drop)

\* int dst_ring_id = p->netmap_v.ring_id % ntv->ifdst->rings_cnt
DstRingId(ring_id, rings_cnt) == ring_id % rings_cnt

\* The positions of ReceiveNetmapLoop; a packet is released by the thread
\* that captured it (the hook is installed in the workers runmode only)
\* while that thread is at one of them.
LoopPcs == {"running", "drain"}

\* PacketFreeOrRelease(p): the descriptor goes back to the pool.
PacketFreeOrRelease(p) == [pkt EXCEPT ![p] = ZeroPkt]

\* NetmapReleasePacket(p) up to SCSpinLock(&txring->tx_lock) returning, or
\* to its end when the packet is not forwarded.  pseudo and drop are what
\* the packet's flags and action say.
NetmapReleasePacketWith(t, p, pseudo, drop) ==
    /\ pc[t] \in LoopPcs
    /\ pkt[p].state = "live" /\ pkt[p].hook /\ pkt[p].ntv = t
    /\ IF ForwardsPacket(ntv[t].copy_mode, pseudo, drop)
       THEN LET dst == ntv[t].ifdst
                d == DstRingId(pkt[p].ring_id, heap[dst].rings_cnt)
            IN /\ SCSpinLockEnabled(rings[dst][d].tx_lock)
               /\ rings' = [rings EXCEPT ![dst][d].tx_lock = t]
               /\ rel' = [rel EXCEPT ![t] = [p |-> p, ret |-> pc[t]]]
               /\ pc' = [pc EXCEPT ![t] = "write_locked"]
               /\ UNCHANGED pkt
       ELSE /\ pkt' = PacketFreeOrRelease(p)
            /\ UNCHANGED <<rings, rel, pc>>
    /\ UNCHANGED <<heap, netmap_devlist, netmap_devlist_lock, open_fds, mmaps,
                   aconf, ntv, ninit, held, rd, nframes, handed,
                   suricata_ctl_flags, livedev>>

NetmapReleasePacket(t) ==
    \E p \in Pkts, pseudo \in BOOLEAN, drop \in BOOLEAN :
        NetmapReleasePacketWith(t, p, pseudo, drop)

\* A copy in place of the swap: the RX slot keeps its buffer.
WriteSlotsCopy(tx, rs) ==
    LET ts == tx.slot[tx.cur]
    IN [tx |-> [tx EXCEPT !.slot[tx.cur] =
                              [buf_idx |-> rs.buf_idx, len |-> rs.len,
                               flags |-> ts.flags \cup {"NS_BUF_CHANGED"}],
                          !.head = nm_ring_next(tx.cur),
                          !.cur = nm_ring_next(tx.cur)],
        rs |-> [rs EXCEPT !.flags = @ \cup {"NS_BUF_CHANGED"}]]

\* A swap that leaves the length of the TX slot as it was.
WriteSlotsKeepLen(tx, rs) ==
    LET ts == tx.slot[tx.cur]
    IN [tx |-> [tx EXCEPT !.slot[tx.cur] =
                              [buf_idx |-> rs.buf_idx, len |-> ts.len,
                               flags |-> ts.flags \cup {"NS_BUF_CHANGED"}],
                          !.head = nm_ring_next(tx.cur),
                          !.cur = nm_ring_next(tx.cur)],
        rs |-> [rs EXCEPT !.buf_idx = ts.buf_idx,
                          !.flags = @ \cup {"NS_BUF_CHANGED"}]]

\* The swap: the TX slot at cur takes the RX slot's buffer and length, the
\* RX slot the TX slot's buffer, both are flagged NS_BUF_CHANGED and head
\* and cur of the TX ring move to the next slot.
WriteSlots(tx, rs) ==
    LET ts == tx.slot[tx.cur]
    IN [tx |-> [tx EXCEPT !.slot[tx.cur] =
                              [buf_idx |-> rs.buf_idx, len |-> rs.len,
                               flags |-> ts.flags \cup {"NS_BUF_CHANGED"}],
                          !.head = nm_ring_next(tx.cur),
                          !.cur = nm_ring_next(tx.cur)],
        rs |-> [rs EXCEPT !.buf_idx = ts.buf_idx,
                          !.flags = @ \cup {"NS_BUF_CHANGED"}]]

\* NetmapWritePacket from the test of nm_ring_space to its return, then
\* PacketFreeOrRelease(p) in NetmapReleasePacket.
NetmapWritePacketLocked(t) ==
    /\ pc[t] = "write_locked"
    /\ LET p == rel[t].p
           src == ntv[t].ifsrc
           dst == ntv[t].ifdst
           rid == pkt[p].ring_id
           sid == pkt[p].slot_id
           d == DstRingId(rid, heap[dst].rings_cnt)
       IN /\ IF nm_ring_space(rings[dst][d].tx) = 0
             THEN /\ ntv' = [ntv EXCEPT ![t].drops = @ + 1]
                  /\ rings' = [rings EXCEPT ![dst][d].tx_lock = SCSpinUnlock(t)]
             ELSE LET w == WriteSlots(rings[dst][d].tx, rings[src][rid].rx.slot[sid])
                  IN /\ rings' = [rings EXCEPT ![src][rid].rx.slot[sid] = w.rs,
                                               ![dst][d].tx = w.tx,
                                               ![dst][d].tx_lock = SCSpinUnlock(t)]
                     /\ UNCHANGED ntv
          /\ pkt' = PacketFreeOrRelease(p)
    /\ pc' = [pc EXCEPT ![t] = rel[t].ret]
    /\ rel' = [rel EXCEPT ![t] = NoRel]
    /\ UNCHANGED <<heap, netmap_devlist, netmap_devlist_lock, open_fds, mmaps,
                   aconf, ninit, held, rd, nframes, handed,
                   suricata_ctl_flags, livedev>>

\* A packet whose data was copied has the pool's own release routine.
PacketPoolReturn(p) ==
    /\ pkt[p].state = "live" /\ ~pkt[p].hook
    /\ pkt' = PacketFreeOrRelease(p)
    /\ UNCHANGED <<regvars, rings, rd, rel, nframes, handed,
                   suricata_ctl_flags, livedev>>

(***************************************************************************)
(* ReceiveNetmapLoop and NetmapRingRead.                                   *)
(***************************************************************************)
\* The kernel receives a frame into a ring some thread polls: the slot at
\* tail gets its length and tail moves on.  The frames are numbered, and
\* the number is the length.
KernelRx(a, i) ==
    /\ nframes < MaxFrames
    /\ \E t \in Threads :
         /\ pc[t] = "running" /\ ntv[t].ifsrc = a
         /\ i \in ntv[t].ring_from..ntv[t].ring_to
    /\ i \in DOMAIN rings[a]
    /\ LET ring == rings[a][i].rx
       IN /\ nm_ring_next(ring.tail) # ring.head
          /\ rings' = [rings EXCEPT ![a][i].rx.slot[ring.tail] =
                                        [@ EXCEPT !.len = nframes + 1, !.flags = {}],
                                    ![a][i].rx.tail = nm_ring_next(ring.tail)]
    /\ nframes' = nframes + 1
    /\ UNCHANGED <<regvars, pkt, rd, rel, handed, suricata_ctl_flags, livedev>>

\* fds[i].revents of the rings of thread t that poll() can report: POLLIN
\* only for a ring that holds a frame, one of POLL_EVENTS for any ring.  The
\* result is the pair of the set of rings with POLLIN and the set of rings
\* with one of POLL_EVENTS.
PollRevents(t) ==
    LET range == ntv[t].ring_from..ntv[t].ring_to
        ready == {i \in range : nm_ring_space(rings[ntv[t].ifsrc][i].rx) > 0}
    IN {r \in [pollin : SUBSET ready, pollerr : SUBSET range] :
          r.pollin # {} \/ r.pollerr # {}}

\* A for loop without the test of POLL_EVENTS.
RingsToReadDespiteEvents(pollin, pollerr) == pollin

\* The rings that the for loop over the range reads: POLL_EVENTS is tested
\* first and ends the ring's turn with continue, POLLIN is tested after it.
RingsToRead(pollin, pollerr) == pollin \ pollerr

\* NetmapRingRead is entered for ring i: it reads avail and cur.
RingReadEnter(r, rs, i) ==
    [r EXCEPT !.ring_id = i, !.avail = nm_ring_space(rs[i].rx), !.cur = rs[i].rx.cur]

\* One iteration up to the first call of NetmapRingRead: PacketPoolWait()
\* has returned, poll() reports POLLIN and none of POLL_EVENTS for at least
\* one ring of the thread's range, and the for loop has skipped the rings
\* before the first of those.
ReceiveNetmapLoopPoll(t) ==
    /\ pc[t] = "running"
    /\ \E p \in Pkts : pkt[p].state = "pool"
    /\ \E r \in PollRevents(t) :
         LET todo == RingsToRead(r.pollin, r.pollerr)
         IN /\ todo # {}
            /\ rd' = [rd EXCEPT ![t] =
                        RingReadEnter([NoRd EXCEPT !.pollin = r.pollin,
                                                   !.pollerr = r.pollerr],
                                      rings[ntv[t].ifsrc],
                                      CHOOSE i \in todo : \A j \in todo : i <= j)]
    /\ pc' = [pc EXCEPT ![t] = "drain"]
    /\ UNCHANGED <<heap, netmap_devlist, netmap_devlist_lock, open_fds, mmaps,
                   aconf, ntv, ninit, held, rings, pkt, rel, nframes, handed,
                   suricata_ctl_flags, livedev>>

\* A loop without the test of suricata_ctl_flags.
ReceiveNetmapLoopForever(flags) == "running"

\* A loop that every finished iteration leaves.
ReceiveNetmapLoopBreaks(flags) == "done"

\* The top of for(;;), reached when an iteration is over:
\*   if (suricata_ctl_flags != 0) break;
\* after the break the loop function returns; otherwise the thread goes on
\* to PacketPoolWait() and poll().
ReceiveNetmapLoopTop(flags) == IF flags # 0 THEN "done" ELSE "running"

\* NetmapDumpCounters(ntv) at the end of an iteration whose NetmapRingRead
\* left the rings as rs and counted read more packets in ntv->pkts: the
\* thread's counts go to the livedev and start again from 0.
LoopIterationEnd(t, rs, read) ==
    /\ rings' = rs
    /\ livedev' = [livedev EXCEPT ![ntv[t].iface].drop = @ + ntv[t].drops,
                                  ![ntv[t].iface].pkts = @ + ntv[t].pkts + read]
    /\ ntv' = [ntv EXCEPT ![t].drops = 0, ![t].pkts = 0]
    /\ rd' = [rd EXCEPT ![t] = NoRd]
    /\ pc' = [pc EXCEPT ![t] = ReceiveNetmapLoopTop(suricata_ctl_flags)]

\* poll() returns -1 (EINTR or another error) or 0 (timeout): continue, with
\* nothing read and no counter dumped.
ReceiveNetmapLoopPollFail(t) ==
    /\ pc[t] = "running"
    /\ \E p \in Pkts : pkt[p].state = "pool"
    /\ pc' = [pc EXCEPT ![t] = ReceiveNetmapLoopTop(suricata_ctl_flags)]
    /\ UNCHANGED <<heap, netmap_devlist, netmap_devlist_lock, open_fds, mmaps,
                   aconf, ntv, ninit, held, fwdvars>>

\* The for loop goes on after ring rd[t].ring_id, whose NetmapRingRead left
\* the rings as rs and counted read more packets in ntv->pkts: the rings
\* with one of POLL_EVENTS or without POLLIN are skipped, the next ring with
\* POLLIN is read, and after the last ring the iteration ends.
LoopNextRing(t, rs, read) ==
    LET r == rd[t]
        todo == {j \in RingsToRead(r.pollin, r.pollerr) : j > r.ring_id}
    IN IF todo = {}
       THEN LoopIterationEnd(t, rs, read)
       ELSE /\ rings' = rs
            /\ ntv' = [ntv EXCEPT ![t].pkts = @ + read]
            /\ rd' = [rd EXCEPT ![t] =
                        RingReadEnter(r, rs[ntv[t].ifsrc],
                                      CHOOSE i \in todo : \A j \in todo : i <= j)]
            /\ pc' = [pc EXCEPT ![t] = "drain"]
            /\ UNCHANGED livedev

\* poll() reports POLLHUP, POLLRDHUP, POLLERR or POLLNVAL for every ring it
\* reports POLLIN for, or for some ring and POLLIN for none: each such ring
\* is skipped, and the iteration ends with NetmapDumpCounters.
ReceiveNetmapLoopPollEvents(t) ==
    /\ pc[t] = "running"
    /\ \E p \in Pkts : pkt[p].state = "pool"
    /\ \E r \in PollRevents(t) : RingsToRead(r.pollin, r.pollerr) = {}
    /\ LoopIterationEnd(t, rings, 0)
    /\ UNCHANGED <<heap, netmap_devlist, netmap_devlist_lock, open_fds, mmaps,
                   aconf, ninit, held, pkt, rel, nframes, handed, suricata_ctl_flags>>

\* The engine is told to stop: another thread sets suricata_ctl_flags.
EngineStop ==
    /\ suricata_ctl_flags = 0
    /\ suricata_ctl_flags' = 1
    /\ UNCHANGED <<regvars, rings, pkt, rd, rel, nframes, handed, livedev>>

\* ioctl(dst_ring->fd, NIOCTXSYNC, 0): the kernel takes the slots before
\* head; once it has sent them they are free again, or it has not yet.
KernelTxSync(tx) ==
    {tx,
     [tx EXCEPT !.tail = nm_ring_prev(tx.head),
                !.slot = [s \in 0..(NumSlots - 1) |-> [tx.slot[s] EXCEPT !.flags = {}]]]}

\* The return of NetmapRingRead, which left the rings as rs, and what
\* follows it in the loop:
\*   if (ntv->copy_mode != NETMAP_COPY_MODE_NONE)
\*       if (SCSpinTrylock(&dst_ring->tx_lock) == 0) ...
\* With the lock taken the thread is about to call ioctl; with no forwarding
\* or the lock held by another thread the for loop goes on.
NetmapRingReadReturn(t, rs, read) ==
    LET dst == ntv[t].ifdst
        d == DstRingId(rd[t].ring_id, heap[dst].rings_cnt)
    IN IF ntv[t].copy_mode # "NONE" /\ SCSpinLockEnabled(rs[dst][d].tx_lock)
       THEN /\ rings' = [rs EXCEPT ![dst][d].tx_lock = t]
            /\ ntv' = [ntv EXCEPT ![t].pkts = @ + read]
            /\ pc' = [pc EXCEPT ![t] = "txsync_locked"]
            /\ UNCHANGED <<rd, livedev>>
       ELSE LoopNextRing(t, rs, read)

\* ioctl(dst_ring->fd, NIOCTXSYNC, 0); SCSpinUnlock(&dst_ring->tx_lock); and
\* the for loop goes on.
NetmapTxSync(t) ==
    /\ pc[t] = "txsync_locked"
    /\ LET dst == ntv[t].ifdst
           d == DstRingId(rd[t].ring_id, heap[dst].rings_cnt)
       IN \E tx \in KernelTxSync(rings[dst][d].tx) :
            LoopNextRing(t, [rings EXCEPT ![dst][d].tx = tx,
                                          ![dst][d].tx_lock = SCSpinUnlock(t)], 0)
    /\ UNCHANGED <<heap, netmap_devlist, netmap_devlist_lock, open_fds, mmaps,
                   aconf, ninit, held, pkt, rel, nframes, handed,
                   suricata_ctl_flags>>

\* Passes in which the filter is run, and can reject, though none is
\* configured.
SlotOutcomesAlwaysFiltered(t) ==
    {"ok", "no_packet", "data_fail", "downstream_fail", "bpf_reject"}

\* How one pass of the while loop of NetmapRingRead can go; the filter is
\* run, and can reject the slot, if (ntv->bpf_prog.bf_len).
SlotOutcomes(t) ==
    {"ok", "no_packet", "data_fail", "downstream_fail"}
    \cup (IF ntv[t].bpf_prog THEN {"bpf_reject"} ELSE {})

\* The descriptor a slot is handed downstream in: with NETMAP_FLAG_ZERO_COPY
\* it refers to the slot and has NetmapReleasePacket as its release routine.
NewPacket(t) ==
    IF "NETMAP_FLAG_ZERO_COPY" \in ntv[t].flags
    THEN [state |-> "live", hook |-> TRUE, ntv |-> t,
          ring_id |-> rd[t].ring_id, slot_id |-> rd[t].cur]
    ELSE [ZeroPkt EXCEPT !.state = "live"]

\* PacketGetFromQueueOrAlloc() when it returns a descriptor: the first one
\* of the pool.
PacketGetFromQueueOrAlloc(pool) == CHOOSE p \in pool : \A q \in pool : p <= q

\* TmThreadsSlotProcessPkt(ntv->tv, ntv->slot, p): the frame in the slot at
\* cur is the one handed downstream last from its ring.
TmThreadsSlotProcessPkt(t) ==
    [handed EXCEPT ![ntv[t].ifsrc][rd[t].ring_id] =
        rings[ntv[t].ifsrc][rd[t].ring_id].rx.slot[rd[t].cur].len]

\* One pass of the while loop.  A pass that returns NETMAP_FAILURE leaves
\* the ring's head and cur as they were.
NetmapRingReadSlotWith(t, o) ==
    /\ pc[t] = "drain"
    /\ rd[t].avail > 0
    /\ LET pool == {p \in Pkts : pkt[p].state = "pool"}
           zc == "NETMAP_FLAG_ZERO_COPY" \in ntv[t].flags
           counted == ntv[t].pkts + livedev[ntv[t].iface].pkts < MaxRead
       IN IF o = "bpf_reject"
          THEN /\ rd' = [rd EXCEPT ![t].avail = @ - 1,
                                   ![t].cur = nm_ring_next(@)]
               /\ UNCHANGED <<pc, pkt, rings, ntv, livedev, handed>>
          ELSE IF o = "no_packet"
          THEN NetmapRingReadReturn(t, rings, 0) /\ UNCHANGED <<pkt, handed>>
          ELSE IF o = "data_fail"
          THEN \* TmqhOutputPacketpool(ntv->tv, p) before the packet is handed on
               /\ pool # {} /\ counted
               /\ NetmapRingReadReturn(t, rings, 1)
               /\ UNCHANGED <<pkt, handed>>
          ELSE IF o = "downstream_fail" /\ ~zc
          THEN \* TmqhOutputPacketpool(ntv->tv, p) with the pool's release
               /\ pool # {} /\ counted
               /\ NetmapRingReadReturn(t, rings, 1)
               /\ handed' = TmThreadsSlotProcessPkt(t)
               /\ UNCHANGED pkt
          ELSE IF o = "downstream_fail"
          THEN \* TmqhOutputPacketpool(ntv->tv, p) calls NetmapReleasePacket
               /\ counted
               /\ pool # {}
               /\ pkt' = [pkt EXCEPT ![PacketGetFromQueueOrAlloc(pool)] = NewPacket(t)]
               /\ NetmapRingReadReturn(t, rings, 1)
               /\ handed' = TmThreadsSlotProcessPkt(t)
          ELSE /\ counted
               /\ pool # {}
               /\ pkt' = [pkt EXCEPT ![PacketGetFromQueueOrAlloc(pool)] = NewPacket(t)]
               /\ rd' = [rd EXCEPT ![t].avail = @ - 1,
                                   ![t].cur = nm_ring_next(@)]
               /\ ntv' = [ntv EXCEPT ![t].pkts = @ + 1]
               /\ handed' = TmThreadsSlotProcessPkt(t)
               /\ UNCHANGED <<pc, rings, livedev>>
    /\ UNCHANGED <<heap, netmap_devlist, netmap_devlist_lock, open_fds, mmaps,
                   aconf, ninit, held, rel, nframes, suricata_ctl_flags>>

NetmapRingReadSlot(t) == \E o \in SlotOutcomes(t) : NetmapRingReadSlotWith(t, o)

\* A commit that gives the kernel nothing back: head stays.
RingCommitCurOnly(ring, cur) == [ring EXCEPT !.cur = cur]

\* ring->head = ring->cur = cur
RingCommit(ring, cur) == [ring EXCEPT !.head = cur, !.cur = cur]

\* The while loop is over: ring->head = ring->cur = cur, and NetmapRingRead
\* returns.
NetmapRingReadEnd(t) ==
    /\ pc[t] = "drain"
    /\ rd[t].avail = 0
    /\ NetmapRingReadReturn(t,
           [rings EXCEPT ![ntv[t].ifsrc][rd[t].ring_id].rx = RingCommit(@, rd[t].cur)], 0)
    /\ UNCHANGED <<heap, netmap_devlist, netmap_devlist_lock, open_fds, mmaps,
                   aconf, ninit, held, pkt, rel, nframes, handed,
                   suricata_ctl_flags>>

(***************************************************************************)
(* The capture loops and the release hook, from the state the inits of     *)
(* NumThreads threads on eth0 leave: eth0 at address 1 and, when the       *)
(* packets are forwarded, eth1 at address 2.                               *)
(***************************************************************************)
\* One thread per ring is configured; the threads that run hold some of the
\* slot indexes, the first of them index 0.
FwdConfs ==
    {[threads |-> Eth0Rings, copy_mode |-> "NONE", bpf_filter |-> TRUE, runmode |-> "workers"],
     [threads |-> Eth0Rings, copy_mode |-> "TAP", bpf_filter |-> FALSE, runmode |-> "workers"],
     [threads |-> Eth0Rings, copy_mode |-> "IPS", bpf_filter |-> FALSE, runmode |-> "workers"],
     [threads |-> Eth0Rings, copy_mode |-> "IPS", bpf_filter |-> FALSE, runmode |-> "autofp"]}

SlotIndexes ==
    {f \in [Threads -> 0..(Eth0Rings - 1)] :
        f[1] = 0 /\ \A t, u \in Threads : t < u => f[t] < f[u]}

\* The state in which the threads of T have come through
\* ReceiveNetmapThreadInit under configuration c, thread t with slot index
\* f[t], and no packet has arrived yet; the other threads were never
\* started.
InitRunning(c, f, T) ==
    LET fwd == c.copy_mode # "NONE"
        last == CHOOSE t \in T : \A u \in T : u <= t
        dev(a) ==
            IF a = 1
            THEN [alloc |-> TRUE, ifname |-> "eth0", mem |-> TRUE,
                  rings_cnt |-> Eth0Rings, ref |-> Cardinality(T) - 1,
                  threads_run |-> f[last] + 1]
            ELSE IF a = 2 /\ fwd
            THEN [alloc |-> TRUE, ifname |-> "eth1", mem |-> TRUE,
                  rings_cnt |-> Eth1Rings, ref |-> Cardinality(T) - 1,
                  threads_run |-> 0]
            ELSE ZeroDev
    IN /\ heap = [a \in Addr |-> dev(a)]
       /\ netmap_devlist = IF fwd THEN <<1, 2>> ELSE <<1>>
       /\ netmap_devlist_lock = NoThread
       /\ open_fds = Eth0Rings + (IF fwd THEN Eth1Rings ELSE 0)
       /\ mmaps = IF fwd THEN 2 ELSE 1
       /\ aconf = [n \in Names |-> c]
       /\ pc = [t \in Threads |-> IF t \in T THEN "running" ELSE "idle"]
       /\ ntv = [t \in Threads |->
                   IF t \in T
                   THEN [ZeroNtv EXCEPT
                           !.ifsrc = 1,
                           !.ifdst = IF fwd THEN 2 ELSE NULL,
                           !.ring_from = RingFrom(f[t], Eth0Rings, c.threads),
                           !.ring_to = RingTo(f[t], Eth0Rings, c.threads),
                           !.thread_idx = f[t],
                           !.flags = RunmodeFlags(c.runmode),
                           !.bpf_prog = c.bpf_filter,
                           !.copy_mode = c.copy_mode,
                           !.iface = "eth0"]
                   ELSE ZeroNtv]
       /\ ninit = Cardinality(T)
       /\ held = [n \in Names |-> IF n = "eth0" \/ fwd THEN Cardinality(T) ELSE 0]
       /\ rings = [a \in Addr |-> DevRings(a, dev(a).rings_cnt)]
       /\ pkt = [p \in Pkts |-> ZeroPkt]
       /\ rd = [t \in Threads |-> NoRd]
       /\ rel = [t \in Threads |-> NoRel]
       /\ nframes = 0
       /\ handed = [a \in Addr |-> [i \in 0..(dev(a).rings_cnt - 1) |-> 0]]
       /\ suricata_ctl_flags = 0
       /\ livedev = [n \in Names |-> [pkts |-> 0, drop |-> 0]]

InitFwd == \E c \in FwdConfs, f \in SlotIndexes : InitRunning(c, f, Threads)

NextFwd ==
    \/ \E t \in Threads :
         \/ ReceiveNetmapLoopPoll(t)
         \/ NetmapRingReadSlot(t)
         \/ ReceiveNetmapLoopPollFail(t)
         \/ ReceiveNetmapLoopPollEvents(t)
         \/ NetmapRingReadEnd(t)
         \/ NetmapTxSync(t)
         \/ NetmapReleasePacket(t)
         \/ NetmapWritePacketLocked(t)
    \/ \E p \in Pkts : PacketPoolReturn(p)
    \/ EngineStop
    \/ \E a \in Addr, i \in 0..(Eth0Rings - 1) : KernelRx(a, i)

SpecFwd == InitFwd /\ [][NextFwd]_vars

(***************************************************************************)
(* Properties of the registry.                                             *)
(***************************************************************************)
\* The handles the threads hold: the pointer, the interface it was opened
\* for and whether its Device has been destroyed since.
Handles ==
    {[ptr |-> ntv[t].ifsrc, name |-> ntv[t].iface, gone |-> ntv[t].src_gone] :
        t \in {u \in Threads : ntv[u].ifsrc # NULL}}
    \cup {[ptr |-> ntv[t].ifdst, name |-> OutIface(ntv[t].iface), gone |-> ntv[t].dst_gone] :
        t \in {u \in Threads : ntv[u].ifdst # NULL}}

\* The step of thread t is its NetmapClose.
ClosedBy(t) == pc[t] \in {"err_close", "running", "ddst_close"} /\ pc'[t] # pc[t]

\* C1: every Device in the registry has refcount >= 1 (an unsigned count is
\* >= 1 exactly when it is not 0); a Device whose count is 0 is not in it.
C1_RefcountAtLeastOne ==
    \A a \in Range(netmap_devlist) : heap[a].ref # 0

\* C2: after k acquires of a name and j < k releases its Device is in the
\* registry, mapped, with refcount k - j; once j = k it is gone.
C2_RefcountIsAcquiresLessReleases ==
    \A n \in Names :
        IF held[n] >= 1
        THEN /\ DevByName(n) # NULL
             /\ heap[DevByName(n)].mem
             /\ heap[DevByName(n)].ref = held[n]
        ELSE DevByName(n) = NULL

\* C3: a release through a handle whose Device has been destroyed returns
\* NotRegistered (-1) and leaves the registry and every refcount as they were.
C3_StaleReleaseNotRegistered ==
    [][\A t \in Threads :
         (ClosedBy(t) /\ CloseArgGone(t)) =>
             /\ NetmapCloseRet(CloseArg(t)) = -1
             /\ UNCHANGED <<heap, netmap_devlist>>]_vars

\* C4: the registry holds at most one Device per interface name, and every
\* handle to a Device that has not been destroyed points to the one Device
\* of its name: one thread built it and the others share it.
C4_OneDevicePerName ==
    /\ \A i, j \in 1..Len(netmap_devlist) :
         heap[netmap_devlist[i]].ifname = heap[netmap_devlist[j]].ifname => i = j
    /\ \A h \in Handles : ~h.gone => h.ptr = DevByName(h.name)

\* C4 happens: two threads hold the same Device, one built it and one shares.
C4_Witness ==
    \E t, u \in Threads :
        /\ t # u
        /\ ntv[t].ifsrc # NULL /\ ntv[t].ifsrc = ntv[u].ifsrc
        /\ ~ntv[t].src_gone /\ ~ntv[u].src_gone
        /\ ntv[t].iface = ntv[u].iface

\* The constructions that fail at a per-ring step.
RingFailures(rc) == {o \in CreateOutcomes(rc) : o.kind \in {"open", "regif", "mmap"}}

\* C5: an acquire that fails at a per-ring step returns with every ring
\* handle it opened closed, no region left mapped and the registry unchanged.
C5_FailedCreateLeavesNothing ==
    [][\A t \in Threads :
         pc[t] \in {"src_create", "dst_create"} =>
           \A o \in RingFailures(HwRings(OpenName(t))) :
             NetmapOpenCreateWith(t, o) =>
             /\ open_fds' = open_fds
             /\ mmaps' = mmaps
             /\ UNCHANGED <<heap, netmap_devlist>>]_vars

\* The rings of the range of thread t.
RingsOf(t) == ntv[t].ring_from..ntv[t].ring_to

\* The threads that have completed their init on the Device at address d.
Attached(d) ==
    {t \in Threads : pc[t] = "running" /\ ntv[t].ifsrc = d /\ ~ntv[t].src_gone}

\* C6: while no init or deinit is under way, the ranges of the threads that
\* completed their init on one Device are pairwise disjoint and their union
\* is a prefix [0, m) of the ring indices.
C6_RangesDisjointPrefix ==
    (\A t \in Threads : pc[t] \in {"idle", "running"}) =>
        \A d \in Addr :
            LET owned == UNION {RingsOf(t) : t \in Attached(d)}
            IN /\ \A t, u \in Attached(d) : t # u => RingsOf(t) \cap RingsOf(u) = {}
               /\ \A r \in owned : \A q \in 0..r : q \in owned

\* C7: with fewer threads than rings and a ring count the thread count does
\* not divide, the thread with slot index threads - 1 has ring_to equal to
\* rings_cnt - 1.
C7_LastThreadOwnsRemainder ==
    \A t \in Threads :
        (pc[t] = "running" /\ ~ntv[t].src_gone) =>
            LET rc == heap[ntv[t].ifsrc].rings_cnt
                n == aconf[ntv[t].iface].threads
            IN (n < rc /\ rc % n # 0 /\ ntv[t].thread_idx = n - 1)
                   => ntv[t].ring_to = rc - 1

(***************************************************************************)
(* Properties of the release hook.                                         *)
(***************************************************************************)
\* C8: a release with copy_mode NONE, of a pseudo packet, or with copy_mode
\* IPS of a packet with action DROP leaves the buf_idx and flags of the
\* packet's RX slot, every TX ring (head, cur, slots) and the thread's drops
\* as they were, and the descriptor is back in the pool.
C8_NoForwardingLeavesRingsAlone ==
    [][\A t \in Threads, p \in Pkts, pseudo \in BOOLEAN, drop \in BOOLEAN :
         (/\ NetmapReleasePacketWith(t, p, pseudo, drop)
          /\ \/ ntv[t].copy_mode = "NONE"
             \/ pseudo
             \/ ntv[t].copy_mode = "IPS" /\ drop)
         => LET src == ntv[t].ifsrc
                rs == rings[src][pkt[p].ring_id].rx.slot[pkt[p].slot_id]
                rs2 == rings'[src][pkt[p].ring_id].rx.slot[pkt[p].slot_id]
            IN /\ rs2.buf_idx = rs.buf_idx
               /\ rs2.flags = rs.flags
               /\ \A a \in Addr : \A i \in DOMAIN rings[a] :
                    rings'[a][i].tx = rings[a][i].tx
               /\ ntv'[t].drops = ntv[t].drops
               /\ pkt'[p].state = "pool"]_vars

\* C8 happens: with copy_mode IPS and zero copy the one frame received was
\* read into a packet, the drain committed, the packet is back in the pool,
\* and no TX ring has moved and nothing was counted as dropped: the packet
\* was released as a pseudo packet or with action DROP.
C8_Witness ==
    \E t \in Threads :
        /\ ntv[t].copy_mode = "IPS"
        /\ "NETMAP_FLAG_ZERO_COPY" \in ntv[t].flags
        /\ pc[t] = "running"
        /\ nframes = 1
        /\ livedev[ntv[t].iface].pkts = 1
        /\ rings[ntv[t].ifsrc][ntv[t].ring_from].rx.head = 1
        /\ \A p \in Pkts : pkt[p].state = "pool"
        /\ \A i \in DOMAIN rings[ntv[t].ifdst] : rings[ntv[t].ifdst][i].tx.cur = 0
        /\ livedev[ntv[t].iface].drop = 0
        /\ \A u \in Threads : ntv[u].drops = 0

\* C9: a release of a packet that is not a pseudo packet, with copy_mode TAP
\* or with copy_mode IPS and no action DROP, takes the tx_lock of the ring
\* ring_id mod rings_cnt of the destination, which is a ring of its array;
\* with a free slot in that ring, afterwards the TX slot at the old cur holds
\* the RX slot's old buf_idx and its len, the RX slot the TX slot's old
\* buf_idx, both slots have NS_BUF_CHANGED, and head = cur = next(old cur).
C9_ForwardSwapsBuffers ==
    [][\A t \in Threads :
         /\ \A p \in Pkts, pseudo \in BOOLEAN, drop \in BOOLEAN :
              (/\ NetmapReleasePacketWith(t, p, pseudo, drop)
               /\ ~pseudo
               /\ \/ ntv[t].copy_mode = "TAP"
                  \/ ntv[t].copy_mode = "IPS" /\ ~drop)
              => LET dst == ntv[t].ifdst
                     d == pkt[p].ring_id % heap[dst].rings_cnt
                 IN /\ d \in 0..(heap[dst].rings_cnt - 1)
                    /\ d \in DOMAIN rings[dst]
                    /\ rings'[dst][d].tx_lock = t
                    /\ pc'[t] = "write_locked"
                    /\ rel'[t].p = p
         /\ pc[t] = "write_locked" =>
              LET p == rel[t].p
                  src == ntv[t].ifsrc
                  dst == ntv[t].ifdst
                  d == pkt[p].ring_id % heap[dst].rings_cnt
                  tx == rings[dst][d].tx
                  rs == rings[src][pkt[p].ring_id].rx.slot[pkt[p].slot_id]
                  tx2 == rings'[dst][d].tx
                  rs2 == rings'[src][pkt[p].ring_id].rx.slot[pkt[p].slot_id]
              IN (NetmapWritePacketLocked(t) /\ tx.tail # tx.cur)
                 => /\ tx2.slot[tx.cur].buf_idx = rs.buf_idx
                    /\ rs2.buf_idx = tx.slot[tx.cur].buf_idx
                    /\ tx2.slot[tx.cur].len = rs.len
                    /\ rs2.len = rs.len
                    /\ "NS_BUF_CHANGED" \in tx2.slot[tx.cur].flags
                    /\ "NS_BUF_CHANGED" \in rs2.flags
                    /\ tx2.head = nm_ring_next(tx.cur)
                    /\ tx2.cur = nm_ring_next(tx.cur)]_vars

\* C9 happens: a TX slot holds a frame and a buffer that came from an RX
\* slot of the source, and the RX slot it came from holds a TX buffer.
C9_Witness ==
    \E t \in Threads :
        /\ ntv[t].copy_mode \in {"TAP", "IPS"}
        /\ \E i \in DOMAIN rings[ntv[t].ifdst], s \in 0..(NumSlots - 1) :
             LET ts == rings[ntv[t].ifdst][i].tx.slot[s]
             IN /\ "NS_BUF_CHANGED" \in ts.flags
                /\ ts.len > 0
                /\ \E j \in DOMAIN rings[ntv[t].ifsrc], r \in 0..(NumSlots - 1) :
                     /\ ts.buf_idx = BufIdx(ntv[t].ifsrc, j, 0, r)
                     /\ "NS_BUF_CHANGED" \in rings[ntv[t].ifsrc][j].rx.slot[r].flags
                     /\ rings[ntv[t].ifsrc][j].rx.slot[r].buf_idx
                            = BufIdx(ntv[t].ifdst, i, 1, s)

\* C10: a release that finds the TX ring without a free slot adds 1 to the
\* thread's drops, changes no slot of any ring and neither head nor cur of
\* the TX ring, leaves the tx_lock free and the descriptor in the pool.
C10_TxFullDropsPacket ==
    [][\A t \in Threads :
         pc[t] = "write_locked" =>
           LET p == rel[t].p
               dst == ntv[t].ifdst
               d == pkt[p].ring_id % heap[dst].rings_cnt
               tx == rings[dst][d].tx
           IN (NetmapWritePacketLocked(t) /\ tx.tail = tx.cur)
              => /\ ntv'[t].drops = ntv[t].drops + 1
                 /\ \A a \in Addr : \A i \in DOMAIN rings[a] :
                      /\ rings'[a][i].rx.slot = rings[a][i].rx.slot
                      /\ rings'[a][i].tx.slot = rings[a][i].tx.slot
                 /\ rings'[dst][d].tx.head = tx.head
                 /\ rings'[dst][d].tx.cur = tx.cur
                 /\ rings'[dst][d].tx_lock = NoThread
                 /\ pkt'[p].state = "pool"]_vars

\* C10 happens: a thread has counted a dropped packet, the TX ring of its
\* range is full, no thread holds its tx_lock and no packet is left.
C10_Witness ==
    \E t \in Threads :
        /\ ntv[t].drops = 1
        /\ pc[t] \in LoopPcs
        /\ \E i \in DOMAIN rings[ntv[t].ifdst] :
             /\ rings[ntv[t].ifdst][i].tx.tail = rings[ntv[t].ifdst][i].tx.cur
             /\ rings[ntv[t].ifdst][i].tx_lock = NoThread
        /\ \A p \in Pkts : pkt[p].state = "pool"

(***************************************************************************)
(* Properties of the rings.                                                *)
(***************************************************************************)
\* The slots of the mapped regions: device, ring, RX (0) or TX (1), slot.
SlotPlaces ==
    {pl \in Addr \X (0..(Eth0Rings - 1)) \X {0, 1} \X (0..(NumSlots - 1)) :
        pl[2] \in DOMAIN rings[pl[1]]}

\* The buffer index a slot holds.
SlotBuf(pl) ==
    IF pl[3] = 0 THEN rings[pl[1]][pl[2]].rx.slot[pl[4]].buf_idx
    ELSE rings[pl[1]][pl[2]].tx.slot[pl[4]].buf_idx

\* C11: whatever releases have run, the slots of the RX and TX rings hold
\* the buffer indices they held at the start, each of them in exactly one
\* slot: none is lost and none is held twice.
C11_BufferIndicesPreserved ==
    LET places == SlotPlaces
        held_now == {SlotBuf(pl) : pl \in places}
    IN /\ held_now = {BufIdx(pl[1], pl[2], pl[3], pl[4]) : pl \in places}
       /\ Cardinality(held_now) = Cardinality(places)

\* C11 happens: one TX ring holds buffers that came from the RX rings of two
\* threads, whose source rings map to it.
C11_Witness ==
    \E t, u \in Threads :
        /\ t # u
        /\ ntv[t].ifdst # NULL
        /\ \E d \in DOMAIN rings[ntv[t].ifdst], s1, s2 \in 0..(NumSlots - 1) :
             /\ d = DstRingId(ntv[t].ring_from, heap[ntv[t].ifdst].rings_cnt)
             /\ d = DstRingId(ntv[u].ring_from, heap[ntv[u].ifdst].rings_cnt)
             /\ \E r \in 0..(NumSlots - 1) :
                  rings[ntv[t].ifdst][d].tx.slot[s1].buf_idx
                      = BufIdx(ntv[t].ifsrc, ntv[t].ring_from, 0, r)
             /\ \E r \in 0..(NumSlots - 1) :
                  rings[ntv[t].ifdst][d].tx.slot[s2].buf_idx
                      = BufIdx(ntv[u].ifsrc, ntv[u].ring_from, 0, r)

\* Thread t is between taking the tx_lock of ring i of the device at a and
\* giving it back: in NetmapWritePacket, or at the ioctl of the loop.
HoldsTxLock(t, a, i) ==
    /\ a = ntv[t].ifdst
    /\ a # NULL
    /\ \/ /\ pc[t] = "write_locked"
          /\ i = DstRingId(pkt[rel[t].p].ring_id, heap[a].rings_cnt)
       \/ /\ pc[t] = "txsync_locked"
          /\ i = DstRingId(rd[t].ring_id, heap[a].rings_cnt)

\* C12: at most one thread is between taking and giving back the tx_lock of
\* a TX ring; every step that changes head, cur, tail or a slot of a TX ring
\* is a step of the thread that holds the ring's tx_lock, in the release
\* hook or at the TX sync of the loop; and a forward by the holder writes
\* the slot at cur only and moves cur on by exactly one.
C12_TxLockSerializesTxRing ==
    /\ [](\A a \in Addr : \A i \in DOMAIN rings[a] : \A t, u \in Threads :
            (HoldsTxLock(t, a, i) /\ HoldsTxLock(u, a, i)) => t = u)
    /\ [][\A a \in Addr : \A i \in DOMAIN rings[a] :
            rings'[a][i].tx # rings[a][i].tx =>
              \E t \in Threads :
                /\ HoldsTxLock(t, a, i)
                /\ rings[a][i].tx_lock = t
                /\ pc'[t] # pc[t]
                /\ \A u \in Threads \ {t} : pc'[u] = pc[u]
                /\ pc[t] = "write_locked" =>
                     LET tx == rings[a][i].tx
                     IN /\ rings'[a][i].tx.cur = nm_ring_next(tx.cur)
                        /\ \A s \in 0..(NumSlots - 1) :
                             s # tx.cur => rings'[a][i].tx.slot[s] = tx.slot[s]]_vars

\* C12 happens: a thread holds the tx_lock of a TX ring in the release hook
\* while another thread has a packet to forward to the same ring and so
\* must wait, and the TX ring has been written before.
C12_Witness ==
    \E t, u \in Threads :
        /\ t # u
        /\ pc[t] = "write_locked"
        /\ pc[u] \in LoopPcs
        /\ ntv[u].copy_mode # "NONE"
        /\ \E p \in Pkts :
             /\ pkt[p].state = "live" /\ pkt[p].hook /\ pkt[p].ntv = u
             /\ HoldsTxLock(t, ntv[u].ifdst,
                            DstRingId(pkt[p].ring_id, heap[ntv[u].ifdst].rings_cnt))
             /\ rings[ntv[u].ifdst][DstRingId(pkt[p].ring_id,
                                              heap[ntv[u].ifdst].rings_cnt)].tx.cur # 0

\* C13: head and cur of every RX ring are equal whenever a drain is over
\* (and at every other moment); a drain that ends without an abort leaves
\* both at the cur it started from moved on, modulo the ring size, by the
\* number of slots that were available when it started.  Neither cur nor
\* tail of the ring changes while the drain runs, so that number is the
\* ring's nm_ring_space in the state the drain ends in.
C13_DrainCommitsHeadAndCur ==
    /\ [](\A a \in Addr : \A i \in DOMAIN rings[a] :
            rings[a][i].rx.head = rings[a][i].rx.cur)
    /\ [][\A t \in Threads :
            NetmapRingReadEnd(t) =>
              LET ring == rings[ntv[t].ifsrc][rd[t].ring_id].rx
                  after == rings'[ntv[t].ifsrc][rd[t].ring_id].rx
                  to == (ring.cur + nm_ring_space(ring)) % NumSlots
              IN after.head = to /\ after.cur = to]_vars

\* C13 happens: a drain has ended without an abort and released the slots
\* it read, and the thread is back at the top of its loop.
C13_Witness ==
    \E t \in Threads :
        /\ pc[t] = "running"
        /\ LET ring == rings[ntv[t].ifsrc][ntv[t].ring_from].rx
           IN /\ ring.head # 0
              /\ ring.head = ring.cur
              /\ ring.head = ring.tail

\* C14: a pass of the drain in which the filter rejects the slot takes no
\* descriptor from the pool, hands nothing downstream and counts nothing,
\* and moves only the local cur; the local cur moves past a slot without a
\* packet for it only if a filter is configured, and otherwise the slot it
\* passes has been handed downstream in a descriptor taken from the pool
\* (which refers to that slot in zero-copy mode); and the commit at the end
\* of the drain moves head to the local cur, past rejected and accepted
\* slots alike.
C14_BpfRejectSkipsSlot ==
    [][\A t \in Threads :
         /\ NetmapRingReadSlotWith(t, "bpf_reject") =>
              /\ pkt' = pkt
              /\ ntv' = ntv
              /\ rings' = rings
              /\ rd'[t].cur = nm_ring_next(rd[t].cur)
         /\ (pc[t] = "drain" /\ pc'[t] = "drain" /\ rd'[t].cur # rd[t].cur) =>
              \/ ntv[t].bpf_prog /\ pkt' = pkt
              \/ \E p \in Pkts :
                    /\ pkt[p].state = "pool"
                    /\ pkt'[p].state = "live"
                    /\ pkt'[p].hook =>
                         /\ pkt'[p].ring_id = rd[t].ring_id
                         /\ pkt'[p].slot_id = rd[t].cur
         /\ NetmapRingReadEnd(t) =>
              rings'[ntv[t].ifsrc][rd[t].ring_id].rx.head = rd[t].cur]_vars

\* C14 happens: a drain with a filter has passed two slots and is about to
\* commit; one descriptor was taken in all, for one of the two slots, so the
\* other slot was rejected.
C14_Witness ==
    \E t \in Threads :
        /\ ntv[t].bpf_prog
        /\ pc[t] = "drain"
        /\ rd[t].avail = 0
        /\ LET ring == rings[ntv[t].ifsrc][rd[t].ring_id].rx
           IN /\ rd[t].cur = nm_ring_next(nm_ring_next(ring.cur))
              /\ ntv[t].pkts = 1
              /\ livedev[ntv[t].iface].pkts = 0
              /\ \E p \in Pkts :
                   /\ pkt[p].state = "live" /\ pkt[p].ntv = t
                   /\ pkt[p].ring_id = rd[t].ring_id
                   /\ pkt[p].slot_id \in {ring.cur, nm_ring_next(ring.cur)}
                   /\ \A q \in Pkts \ {p} : pkt[q].state = "pool"

\* C15: the frames of one RX ring are handed downstream in the order the
\* kernel received them: a frame handed downstream from a ring is never one
\* the kernel received before the frame handed from that ring last (the
\* kernel numbers the frames as it receives them).
C15_HandedInKernelOrder ==
    [][\A a \in Addr : \A i \in DOMAIN handed[a] :
         handed'[a][i] >= handed[a][i]]_vars

\* The slots a move of head from h to h2 gives back to the kernel.
SlotsReleased(h, h2) == {(h + k) % NumSlots : k \in 0..(((h2 - h) % NumSlots) - 1)}

\* C16: head of an RX ring never moves past a slot that a zero-copy packet
\* still unreleased refers to, unless the forwarding path has swapped the
\* slot's buffer away (the slot is flagged NS_BUF_CHANGED since the kernel
\* filled it).
C16_HeadStaysBehindLivePackets ==
    [][\A p \in Pkts :
         (pkt[p].state = "live" /\ pkt[p].hook /\ pkt'[p] = pkt[p]) =>
           LET src == ntv[pkt[p].ntv].ifsrc
               ring == rings[src][pkt[p].ring_id].rx
               after == rings'[src][pkt[p].ring_id].rx
           IN pkt[p].slot_id \in SlotsReleased(ring.head, after.head) =>
                "NS_BUF_CHANGED" \in ring.slot[pkt[p].slot_id].flags]_vars

\* The drops of an interface that the counters show: those already added to
\* its livedev and those its threads still hold in ntv->drops.
RECURSIVE ThreadDrops(_, _)
ThreadDrops(n, T) ==
    IF T = {} THEN 0
    ELSE LET t == CHOOSE u \in T : TRUE
         IN (IF ntv[t].iface = n THEN ntv[t].drops ELSE 0) + ThreadDrops(n, T \ {t})

DropsSeen(n) == livedev[n].drop + ThreadDrops(n, Threads)

\* C17: every release that finds the TX ring full, and every pass of a
\* drain that gets no descriptor from the pool, adds 1 to the drops that the
\* counters of the thread's interface show.
C17_DropEventsAreCounted ==
    [][\A t \in Threads :
         LET full == /\ pc[t] = "write_locked"
                     /\ NetmapWritePacketLocked(t)
                     /\ nm_ring_space(rings[ntv[t].ifdst][DstRingId(pkt[rel[t].p].ring_id,
                                         heap[ntv[t].ifdst].rings_cnt)].tx) = 0
             exhausted == NetmapRingReadSlotWith(t, "no_packet")
         IN (full \/ exhausted) =>
              DropsSeen(ntv[t].iface)' = DropsSeen(ntv[t].iface) + 1]_vars

(***************************************************************************)
(* Properties of the capture loop.                                         *)
(***************************************************************************)
\* C18: a thread leaves its capture loop only by a step that finds
\* suricata_ctl_flags set; the steps that end an iteration with the flags
\* clear (a poll error or timeout, a ring with HUP, ERR or NVAL, a drain
\* aborted for lack of a descriptor or by a failure downstream, a drain that
\* ended well) leave the thread in the loop.
C18_LoopReturnsOnlyOnShutdown ==
    [][\A t \in Threads :
         (pc[t] # "done" /\ pc'[t] = "done") => suricata_ctl_flags # 0]_vars

\* C18 happens: a thread has returned from its loop with the flags set,
\* after drains of its own that counted three packets and all aborted before
\* the commit (no head has moved, and no other thread's ring has received a
\* frame); a drain reads two slots at most, so an aborted drain was followed
\* by another iteration.
C18_Witness ==
    \E t \in Threads :
        /\ pc[t] = "done"
        /\ suricata_ctl_flags # 0
        /\ livedev[ntv[t].iface].pkts = 3
        /\ nframes = 2
        /\ \A a \in Addr : \A i \in DOMAIN rings[a] :
             /\ rings[a][i].rx.head = 0
             /\ i # ntv[t].ring_from => rings[a][i].rx.tail = 0

(***************************************************************************)
(* Properties of the thread init.                                          *)
(***************************************************************************)
\* C19: a thread whose init has completed, on a Device that has not been
\* destroyed since, holds a slot index in 0..threads-1 and a range with
\* 0 <= ring_from <= ring_to < rings_cnt, and a range of one ring when
\* threads equals rings_cnt.
C19_InitGivesValidSlotAndRange ==
    \A t \in Threads :
        (pc[t] = "running" /\ ~ntv[t].src_gone /\ heap[ntv[t].ifsrc].alloc) =>
          LET rc == heap[ntv[t].ifsrc].rings_cnt
              threads == aconf[ntv[t].iface].threads
          IN /\ ntv[t].thread_idx \in 0..(threads - 1)
             /\ 0 <= ntv[t].ring_from
             /\ ntv[t].ring_from <= ntv[t].ring_to
             /\ ntv[t].ring_to < rc
             /\ threads = rc => ntv[t].ring_from = ntv[t].ring_to

\* C20: an init configured with more threads than its source Device has
\* rings goes from the check to the error exit with threads_run of every
\* Device and the thread's slot index and ring range as they were, none of
\* them assigned; and the NetmapClose of the error exit leaves threads_run
\* of every Device it does not destroy as it was.
C20_TooManyThreadsClaimsNothing ==
    [][\A t \in Threads :
         /\ (/\ pc[t] = "check" /\ pc'[t] # "check"
             /\ heap[ntv[t].ifsrc].alloc
             /\ aconf[ntv[t].iface].threads > heap[ntv[t].ifsrc].rings_cnt) =>
               /\ pc'[t] = "err_close"
               /\ heap' = heap
               /\ ntv' = ntv
               /\ ntv[t].thread_idx = 0 /\ ntv[t].ring_from = 0 /\ ntv[t].ring_to = 0
         /\ (pc[t] = "err_close" /\ pc'[t] # "err_close") =>
               \A a \in Addr :
                 (heap[a].alloc /\ heap'[a].alloc) =>
                    heap'[a].threads_run = heap[a].threads_run]_vars

\* C20 happens: an init with more threads configured than the Device has
\* rings is at the error exit, and no thread has claimed a slot of the
\* Device.
C20_Witness ==
    \E t \in Threads :
        /\ pc[t] = "err_close"
        /\ heap[ntv[t].ifsrc].alloc
        /\ aconf[ntv[t].iface].threads > heap[ntv[t].ifsrc].rings_cnt
        /\ heap[ntv[t].ifsrc].threads_run = 0
        /\ ntv[t].thread_idx = 0 /\ ntv[t].ring_from = 0 /\ ntv[t].ring_to = 0

(***************************************************************************)
(* The capture loops under fair scheduling.                                *)
(***************************************************************************)
\* The steps of thread t inside ReceiveNetmapLoop and the calls it makes.
\* poll() returns after POLL_TIMEOUT at the latest and nothing else in the
\* loop waits, so a thread that can take a step of its loop takes one.
LoopStep(t) ==
    \/ ReceiveNetmapLoopPoll(t)
    \/ ReceiveNetmapLoopPollFail(t)
    \/ ReceiveNetmapLoopPollEvents(t)
    \/ NetmapRingReadSlot(t)
    \/ NetmapRingReadEnd(t)
    \/ NetmapTxSync(t)
    \/ NetmapWritePacketLocked(t)

\* Threads in IPS mode of which two forward to the same ring of the
\* destination (with 3 source and 2 destination rings, from rings 0 and 2).
InitFair ==
    \E c \in {k \in FwdConfs : k.copy_mode = "IPS"} :
        \E f \in {g \in SlotIndexes :
                    \E t, u \in Threads :
                        t # u /\ DstRingId(g[t], Eth1Rings) = DstRingId(g[u], Eth1Rings)} :
            InitRunning(c, f, Threads)

SpecFwdFair ==
    InitFair /\ [][NextFwd]_vars /\ \A t \in Threads : WF_vars(LoopStep(t))

\* PacketPoolWait() returns: the pool holds a descriptor.
PacketPoolWait == \E p \in Pkts : pkt[p].state = "pool"

\* C21: provided PacketPoolWait keeps returning, once suricata_ctl_flags is
\* set every thread leaves its capture loop.
C21_ShutdownEndsEveryLoop ==
    ([]<>PacketPoolWait) =>
        ((suricata_ctl_flags # 0) ~> (\A t \in Threads : pc[t] = "done"))

\* Both loops have exited after the stop, one of them out of an iteration
\* that read packets and the kernel having delivered every frame.
C21_Witness ==
    /\ suricata_ctl_flags # 0
    /\ \A t \in Threads : pc[t] = "done"
    /\ nframes = MaxFrames
    /\ livedev["eth0"].pkts >= 1

\* The release hook of some thread is about to queue a frame on TX ring i of
\* device a: it holds the tx_lock and the ring has room.
FrameQueued(a, i) ==
    \E t \in Threads :
        /\ pc[t] = "write_locked"
        /\ HoldsTxLock(t, a, i)
        /\ nm_ring_space(rings[a][i].tx) > 0

\* The loop of some thread is about to call ioctl(NIOCTXSYNC) on TX ring i of
\* device a.
TxSynced(a, i) ==
    \E t \in Threads : pc[t] = "txsync_locked" /\ HoldsTxLock(t, a, i)

\* C22: every frame that the forward path queues on a TX ring is followed
\* by a TX sync of that ring, the sync of a later iteration making up for a
\* failed SCSpinTrylock.
C22_QueuedFrameIsSynced ==
    \A a \in Addr, i \in 0..(Eth1Rings - 1) : FrameQueued(a, i) ~> TxSynced(a, i)

(***************************************************************************)
(* One capture thread that serves every ring of the device.                *)
(***************************************************************************)
\* threads: 1 in the interface configuration: the range of the only thread
\* is ring 0 to ring rings_cnt - 1.
RangeConfs == {[c EXCEPT !.threads = 1] : c \in {k \in FwdConfs : k.copy_mode = "IPS"}}

InitRange == \E c \in RangeConfs : InitRunning(c, [t \in Threads |-> 0], {1})

SpecRange == InitRange /\ [][NextFwd]_vars

\* C23: while a thread is in the for loop over its rings, the ring it reads
\* or syncs for has POLLIN and none of POLL_EVENTS; a ring with one of
\* POLL_EVENTS keeps its head and cur and hands nothing downstream; and the
\* rings with POLLIN and none of POLL_EVENTS are all read, in order, before
\* the iteration ends.
C23_RingWithPollEventsIsSkipped ==
    /\ [](\A t \in Threads :
            pc[t] \in {"drain", "txsync_locked"} =>
                rd[t].ring_id \in rd[t].pollin /\ rd[t].ring_id \notin rd[t].pollerr)
    /\ [][\A t \in Threads :
            pc[t] \in {"drain", "txsync_locked"} =>
                LET src == ntv[t].ifsrc
                    readable == rd[t].pollin \ rd[t].pollerr
                    later == {j \in readable : j > rd[t].ring_id}
                IN /\ \A i \in rd[t].pollerr :
                        /\ rings'[src][i].rx.head = rings[src][i].rx.head
                        /\ rings'[src][i].rx.cur = rings[src][i].rx.cur
                        /\ handed'[src][i] = handed[src][i]
                   /\ pc'[t] \in {"running", "done"} => later = {}
                   /\ (pc'[t] = "drain" /\ rd'[t].ring_id # rd[t].ring_id) =>
                        /\ rd'[t].ring_id \in later
                        /\ \A j \in later : rd'[t].ring_id <= j]_vars

\* Ring 0 holds a frame and has POLLIN together with one of POLL_EVENTS; the
\* thread has passed it and has read a slot of a later ring.
C23_Witness ==
    \E t \in Threads :
        /\ pc[t] = "drain"
        /\ 0 \in rd[t].pollin \cap rd[t].pollerr
        /\ rd[t].ring_id > 0
        /\ rd[t].cur # rings[ntv[t].ifsrc][rd[t].ring_id].rx.cur
        /\ handed[ntv[t].ifsrc][rd[t].ring_id] > 0
        /\ handed[ntv[t].ifsrc][0] = 0

(***************************************************************************)
(* The error paths of the thread init.                                     *)
(***************************************************************************)
\* The acquires of interface n that thread t has made and not released:
\* its ntv->ifsrc and ntv->ifdst, as far as they are set and their Device
\* has not been destroyed.
ThreadHandles(t, n) ==
    (IF ntv[t].ifsrc # NULL /\ ~ntv[t].src_gone /\ ntv[t].iface = n THEN 1 ELSE 0)
    + (IF ntv[t].ifdst # NULL /\ ~ntv[t].dst_gone /\ OutIface(ntv[t].iface) = n
       THEN 1 ELSE 0)

\* C24: when an init that failed after its first NetmapOpen returns, every
\* acquire it made has been released: on each interface the acquires less
\* releases are what they were without those of the failing thread.
C24_FailedInitReleasesAll ==
    [][\A t \in Threads :
        (pc[t] = "err_close" /\ pc'[t] = "idle") =>
            \A n \in Names : held'[n] = held[n] - ThreadHandles(t, n)]_vars

(***************************************************************************)
(* Slots handed downstream more than once.                                 *)
(***************************************************************************)
\* C25: a slot that NetmapRingRead hands to TmThreadsSlotProcessPkt holds a
\* frame that arrived after every frame of its ring handed downstream
\* before: no slot is handed downstream again before the kernel has
\* refilled it.
C25_SlotHandedAtMostOnce ==
    [][\A t \in Threads :
        (NetmapRingReadSlotWith(t, "ok") \/ NetmapRingReadSlotWith(t, "downstream_fail")) =>
            rings[ntv[t].ifsrc][rd[t].ring_id].rx.slot[rd[t].cur].len
                > handed[ntv[t].ifsrc][rd[t].ring_id]]_vars

(***************************************************************************)
(* The registry and the forwarding side by side, for what holds of both.   *)
(***************************************************************************)
\* A run of the registry specification: the rings have no contents.
RegistryRun == rings = [a \in Addr |-> <<>>]

InitLocks == Init \/ InitFair

NextLocks ==
    \/ RegistryRun /\ Next
    \/ ~RegistryRun /\ NextFwd

SpecLocks == InitLocks /\ [][NextLocks]_vars

\* Thread t is inside NetmapOpen, past SCMutexLock.
InNetmapOpen(t) == pc[t] \in {"src_create", "dst_create"}

\* C26: netmap_devlist_lock is held only by a thread inside NetmapOpen and a
\* tx_lock only by a thread inside NetmapWritePacket or at the TX sync of
\* the loop, so none is held once the operation has returned; the holder can
\* always take its next step, and that step gives the lock back, so no
\* thread is left waiting for a lock that is never released.
C26_NoLockHeldOnReturn ==
    /\ [](\A t \in Threads :
            /\ netmap_devlist_lock \in Threads \cup {NoThread}
            /\ netmap_devlist_lock = t <=> InNetmapOpen(t)
            /\ InNetmapOpen(t) => ENABLED NetmapOpenCreate(t)
            /\ \A a \in Addr : \A i \in DOMAIN rings[a] :
                  /\ rings[a][i].tx_lock \in Threads \cup {NoThread}
                  /\ rings[a][i].tx_lock = t <=> HoldsTxLock(t, a, i)
                  /\ HoldsTxLock(t, a, i) =>
                        ENABLED (NetmapWritePacketLocked(t) \/ NetmapTxSync(t)))
    /\ [][\A t \in Threads :
            /\ (netmap_devlist_lock = t /\ pc'[t] # pc[t]) =>
                  netmap_devlist_lock' = NoThread
            /\ \A a \in Addr : \A i \in DOMAIN rings[a] :
                  (rings[a][i].tx_lock = t /\ pc'[t] # pc[t]) =>
                      rings'[a][i].tx_lock = NoThread]_vars

\* Thread 2 is building the destination Device under the mutex while
\* thread 1, whose init failed, is about to call NetmapClose.
C26_Witness ==
    /\ netmap_devlist_lock = 2
    /\ pc[2] = "dst_create"
    /\ pc[1] = "err_close"

====
